---- MODULE Spec2Model ----
(***************************************************************************)
(* State machine of the transferRegistration Lightning Web Component:      *)
(* the registration-change wizard (Cancellation / Substitution / Transfer) *)
(* of force-app/main/default/lwc/transferRegistration/transferRegistration.js *)
(*                                                                         *)
(* One variable per @track field, one action per handler.  An async        *)
(* handler is two actions: the synchronous part up to its await, which     *)
(* appends the Apex call to inflight, and the continuation that runs when  *)
(* the call resolves or rejects.                                           *)
(***************************************************************************)
EXTENDS Integers, Sequences, FiniteSets, TLC

\* ------------------------------------------------------------------ bounds

\* Apex calls that may be awaiting their response at the same time, in the
\* behaviours of Spec and in those of RaceSpec.
MaxInFlight == 1
MaxRaceInFlight == 2

\* Input fields, other than the selected program, that the operator may have
\* changed from their reset values at the same time.
MaxDirtyFields == 2

\* ------------------------------------------------------- JavaScript values

\* A field fed by a lightning-input holds a number (initial value, reset,
\* value seeded from Apex) or the input's text.
Num(n) == [t |-> "num", n |-> n, s |-> ""]
Str(s) == [t |-> "str", n |-> 0, s |-> s]

\* Texts an amount input delivers in event.target.value.
AmountTexts == {"", "0", "50", "-5"}

\* Texts typed in the transfer fee and discount amount inputs.
TransferFeeTexts == {"50"}
DiscountTexts == {"0", "50"}

\* Number(text) for the texts above.
ParseNumber(s) ==
    CASE s = ""   -> 0
      [] s = "0"  -> 0
      [] s = "50" -> 50
      [] s = "-5" -> 0 - 5

\* Number(v)
ToNumber(v) == IF v.t = "num" THEN v.n ELSE ParseNumber(v.s)

\* JavaScript truthiness of v: 0 and '' are falsy, '0' is truthy.
Truthy(v) == IF v.t = "num" THEN v.n # 0 ELSE v.s # ""

\* String(code).trim().length > 0 for the discount codes of the model.
TrimNonEmpty(code) == code \notin {"", " "}

\* ------------------------------------------------------------- environment

\* Payment_Status__c of the originating opportunity; "" is a missing value.
PaymentStatuses == {"Paid", "Partial Payment", "Unpaid", ""}

\* Has_Parent_Opportunity__c of the originating opportunity.
ParentFlags == {"Yes", "No"}

\* Record ids: an 18-character Salesforce id, and a missing one.
AttendeeId == "a0X5f000001AbCdEAA"
Ids == {AttendeeId, ""}

\* A truncated id, and the ids with it.
ShortId == "a0X5f"
AllIds == Ids \cup {ShortId}

\* id.length for the ids above.
IdLength(id) ==
    IF id = AttendeeId THEN 18 ELSE IF id = ShortId THEN 5 ELSE 0

\* The shortest attendee id the execute handlers accept.
MinIdLength == 15

\* Rows of the program catalog (availablePrograms), null is no row.
NoProgram == [Id |-> "", Expected_Program_Fee__c |-> 0]
Programs == {[Id |-> "a0P1", Expected_Program_Fee__c |-> 40]}

\* What getInitData may resolve with (attendeeId is attendee.Id; an absent
\* availablePrograms is hasPrograms = FALSE; Amount is originalOpp.Amount).
InitData(status, parent, id, programs) ==
    [loaded |-> TRUE, Payment_Status__c |-> status,
     Has_Parent_Opportunity__c |-> parent, attendeeId |-> id,
     hasPrograms |-> programs # {}, availablePrograms |-> programs,
     Amount |-> 1000, originalProgramFeeTotal |-> 800]

\* The responses of getInitData for attendeeId = id: one registration for
\* each payment status when the Quick Action passes the record id (the
\* partially paid one is bundled), and without it a record that has neither
\* attendee nor programs.
InitDatas(id) ==
    IF id # ""
    THEN {InitData(st, IF st = "Partial Payment" THEN "Yes" ELSE "No", id,
                   Programs) : st \in PaymentStatuses}
    ELSE {InitData("", "No", "", {})}

\* The responses of getInitData when the registration may be any one: with
\* the record id, every payment status with and without a parent
\* opportunity; without it, an attendee whose Id is missing, truncated or
\* whole; with a truncated record id, the attendee of that id.
RecordDatas(id) ==
    IF id = AttendeeId
    THEN {InitData(st, p, id, Programs) :
             st \in PaymentStatuses, p \in ParentFlags}
    ELSE IF id = ""
    THEN {InitData("Paid", "No", a, Programs) : a \in AllIds}
    ELSE {InitData("Paid", "No", id, Programs)}

\* initData = {} before the load.
EmptyInitData ==
    [loaded |-> FALSE, Payment_Status__c |-> "", Has_Parent_Opportunity__c |-> "",
     attendeeId |-> "", hasPrograms |-> FALSE, availablePrograms |-> {},
     Amount |-> 0, originalProgramFeeTotal |-> 0]

\* What getProgramDetails may resolve with; null is no object.
NoDetails == [present |-> FALSE, expectedProgramFee |-> 0,
              hasTransferFeePBE |-> FALSE, UnitPrice |-> 0]
FullDetails == [present |-> TRUE, expectedProgramFee |-> 50,
                hasTransferFeePBE |-> TRUE, UnitPrice |-> 25]
BareDetails == [present |-> TRUE, expectedProgramFee |-> 0,
                hasTransferFeePBE |-> FALSE, UnitPrice |-> 0]
ProgramDetailResults == {FullDetails, BareDetails}

\* Contacts searchContacts may return, null is no contact.
NoContact == [id |-> ""]
Contacts == {[id |-> "003A"]}

\* Texts typed in the contact search box.
SearchTexts == {"", "a", "ab"}

\* text.length for the texts above.
TextLength(text) ==
    CASE text = ""   -> 0
      [] text = "a"  -> 1
      [] text = "ab" -> 2

\* The shortest term handleContactSearch sends to searchContacts.
MinSearchLength == 2

\* Discount codes typed at Transfer step 2.
DiscountCodes == {"", " ", "SAVE"}

\* Objects an Apex call may reject with.
Faults == {[isString |-> FALSE, str |-> "", bodyMessage |-> "X", message |-> "M"]}

\* Every shape of fault extractErrorMessage tells apart: a string, an empty
\* string, an object with body.message, one with message only, one with
\* neither.
AllFaults ==
    Faults \cup
    {[isString |-> TRUE, str |-> "S", bodyMessage |-> "", message |-> ""],
     [isString |-> TRUE, str |-> "", bodyMessage |-> "", message |-> ""],
     [isString |-> FALSE, str |-> "", bodyMessage |-> "", message |-> "M"],
     [isString |-> FALSE, str |-> "", bodyMessage |-> "", message |-> ""]}

\* The TypeError of reading a property of null.
TypeError == [isString |-> FALSE, str |-> "", bodyMessage |-> "", message |-> "TypeError"]

\* Result objects: {} and what a successful execute call returns.
EmptyResult == [success |-> FALSE, id |-> "", errorMessage |-> ""]
SuccessResult == [success |-> TRUE, id |-> "006N", errorMessage |-> ""]
FailureResult == [success |-> FALSE, id |-> "", errorMessage |-> "declined"]
ExecuteResults == {SuccessResult, FailureResult}

\* The Apex calls of the component; searchContacts carries its search term.
Call(name, term) == [call |-> name, term |-> term]
ExecuteCalls == {"executeTransfer", "executeCancellation", "executeSubstitution"}
Calls ==
    {Call(name, "") : name \in {"getInitData", "getProgramDetails"} \cup ExecuteCalls}
    \cup {Call("searchContacts", text) :
             text \in {t \in SearchTexts : TextLength(t) >= MinSearchLength}}

NoToast == [title |-> "", message |-> "", detail |-> "", variant |-> ""]

\* ------------------------------------------------------------------- state

VARIABLES
    recordId,               \* @api recordId, set by the Quick Action
    connected,              \* connectedCallback has run
    inflight,               \* Apex calls awaiting their response
    toast,                  \* ShowToastEvent dispatched by the last step
    enteredStep3From,       \* history: the step left when currentStep became
                            \* '3' ('' while currentStep is not '3')
    currentStep, changeType, isLoading, isProcessing, hasError, errorMessage,
    initData, availablePrograms,
    selectedProgram, programDetails,
    newProgramFeeAmount, applyTransferFee, transferFeeAmount, settlementType,
    applyDiscount, discountAmount, discountCode, transferResult,
    applyCancellationFee, cancellationFeeAmount, cancelSettlementType,
    cancellationResult,
    contactSearchTerm, contactSearchResults, selectedContact,
    applySubstitutionDiscount, substitutionResult, isSearchingContacts

commonVars == <<currentStep, enteredStep3From, changeType, isLoading, isProcessing, hasError,
                errorMessage, initData, availablePrograms>>
transferVars == <<selectedProgram, programDetails, newProgramFeeAmount,
                  applyTransferFee, transferFeeAmount, settlementType,
                  applyDiscount, discountAmount, discountCode, transferResult>>
cancellationVars == <<applyCancellationFee, cancellationFeeAmount,
                      cancelSettlementType, cancellationResult>>
substitutionVars == <<contactSearchTerm, contactSearchResults, selectedContact,
                      applySubstitutionDiscount, substitutionResult,
                      isSearchingContacts>>
vars == <<recordId, connected, inflight, toast, enteredStep3From, commonVars, transferVars,
          cancellationVars, substitutionVars>>

\* Field initialisers of the class.
FieldInitialisers ==
    /\ connected = FALSE
    /\ inflight = [c \in Calls |-> 0]
    /\ toast = NoToast
    /\ enteredStep3From = ""
    /\ currentStep = "0"
    /\ changeType = ""
    /\ isLoading = TRUE
    /\ isProcessing = FALSE
    /\ hasError = FALSE
    /\ errorMessage = ""
    /\ initData = EmptyInitData
    /\ availablePrograms = {}
    /\ selectedProgram = NoProgram
    /\ programDetails = NoDetails
    /\ newProgramFeeAmount = Num(0)
    /\ applyTransferFee = TRUE
    /\ transferFeeAmount = Num(0)
    /\ settlementType = ""
    /\ applyDiscount = FALSE
    /\ discountAmount = Num(0)
    /\ discountCode = ""
    /\ transferResult = EmptyResult
    /\ applyCancellationFee = FALSE
    /\ cancellationFeeAmount = Num(0)
    /\ cancelSettlementType = ""
    /\ cancellationResult = EmptyResult
    /\ contactSearchTerm = ""
    /\ contactSearchResults = {}
    /\ selectedContact = NoContact
    /\ applySubstitutionDiscount = TRUE
    /\ substitutionResult = EmptyResult
    /\ isSearchingContacts = FALSE

\* The Quick Action passes the record id, or none.
Init ==
    /\ recordId \in Ids
    /\ FieldInitialisers

\* ----------------------------------------------------------------- getters

isStep0 == currentStep = "0"

isTransferPath == changeType = "Transfer"
isCancellationPath == changeType = "Cancellation"
isSubstitutionPath == changeType = "Substitution"

isTransferStep1 == isTransferPath /\ currentStep = "1"
isTransferStep2 == isTransferPath /\ currentStep = "2"
isTransferStep3 == isTransferPath /\ currentStep = "3"
isTransferStep4 == isTransferPath /\ currentStep = "4"

isCancellationStep1 == isCancellationPath /\ currentStep = "1"
isCancellationStep2 == isCancellationPath /\ currentStep = "2"
isCancellationStep3 == isCancellationPath /\ currentStep = "3"
isCancellationStep4 == isCancellationPath /\ currentStep = "4"

isSubstitutionStep1 == isSubstitutionPath /\ currentStep = "1"
isSubstitutionStep2 == isSubstitutionPath /\ currentStep = "2"
isSubstitutionStep3 == isSubstitutionPath /\ currentStep = "3"

paymentStatus ==
    IF initData.Payment_Status__c # "" THEN initData.Payment_Status__c ELSE "N/A"

\* requiresSettlementScreen with the 'Partial Payment' test left out.
requiresSettlementScreenPaidOnly == paymentStatus = "Paid"

requiresSettlementScreen ==
    paymentStatus = "Paid" \/ paymentStatus = "Partial Payment"

isBundledRegistration == initData.Has_Parent_Opportunity__c = "Yes"

isReady == ~isLoading /\ ~hasError

showFooter ==
    /\ ~isLoading
    /\ ~hasError
    /\ ~isTransferStep4
    /\ ~isCancellationStep4
    /\ ~isSubstitutionStep3

showBackButton == currentStep # "0"

disableNext ==
    IF isStep0 THEN changeType = ""
    ELSE IF isTransferStep1 THEN selectedProgram = NoProgram
    ELSE IF isCancellationStep1 THEN
        applyCancellationFee
        /\ (~Truthy(cancellationFeeAmount) \/ ToNumber(cancellationFeeAmount) <= 0)
    ELSE IF isCancellationStep2 THEN cancelSettlementType = ""
    ELSE IF isSubstitutionStep1 THEN selectedContact = NoContact
    ELSE FALSE

showExecuteButton == isTransferStep3 \/ isCancellationStep3 \/ isSubstitutionStep2

CANCEL_SETTLEMENT_OPTIONS_PAID == {"Refund", "Unapplied Funds"}
CANCEL_SETTLEMENT_OPTIONS_BUNDLE ==
    {"Apply to Remaining Balance", "Refund", "Unapplied Funds"}
SETTLEMENT_OPTIONS == {"", "Refund", "Unapplied Funds"}

\* cancelSettlementOptions without the isBundledRegistration test.
cancelSettlementOptionsUnbundled ==
    IF paymentStatus = "Partial Payment"
    THEN CANCEL_SETTLEMENT_OPTIONS_BUNDLE
    ELSE CANCEL_SETTLEMENT_OPTIONS_PAID

cancelSettlementOptions ==
    IF isBundledRegistration /\ paymentStatus = "Partial Payment"
    THEN CANCEL_SETTLEMENT_OPTIONS_BUNDLE
    ELSE CANCEL_SETTLEMENT_OPTIONS_PAID

\* ------------------------------------------------------- derived amounts

\* Three digits of a thousands group.
Pad3(n) ==
    IF n < 10 THEN "00" \o ToString(n)
    ELSE IF n < 100 THEN "0" \o ToString(n)
    ELSE ToString(n)

\* CURRENCY_FORMATTER.format(n) for an integer n below a million; negZero is
\* the sign of a zero (format(-0) is '-$0.00').
FormatSigned(n, negZero) ==
    LET a == IF n < 0 THEN 0 - n ELSE n
        digits == IF a < 1000 THEN ToString(a)
                  ELSE ToString(a \div 1000) \o "," \o Pad3(a % 1000)
    IN  (IF n < 0 \/ (n = 0 /\ negZero) THEN "-" ELSE "") \o "$" \o digits \o ".00"

CurrencyFormat(n) == FormatSigned(n, FALSE)

\* v || 0 of an amount field, as the number the formatter shows.
OrZero(v) == IF Truthy(v) THEN ToNumber(v) ELSE 0

formattedCancellationFee == CurrencyFormat(OrZero(cancellationFeeAmount))

\* cancellationRefundAmount without the fee.
cancellationRefundAmountFeeless ==
    LET oppAmount == initData.Amount
        fee == 0
    IN  oppAmount - fee

cancellationRefundAmount ==
    LET oppAmount == initData.Amount
        fee == IF applyCancellationFee THEN ToNumber(cancellationFeeAmount) ELSE 0
    IN  oppAmount - fee

formattedCancellationRefund == CurrencyFormat(cancellationRefundAmount)

formattedNewFee == CurrencyFormat(OrZero(newProgramFeeAmount))

formattedTransferFee == CurrencyFormat(OrZero(transferFeeAmount))

\* format(-(this.discountAmount || 0)): the negation of 0 is -0.
formattedDiscountAmount ==
    FormatSigned(0 - OrZero(discountAmount), OrZero(discountAmount) = 0)

\* netCreditAmount subtracting the transfer fee whatever the toggle says.
netCreditAmountAlwaysFee ==
    LET originalFee == initData.originalProgramFeeTotal
        transferFee == OrZero(transferFeeAmount)
    IN  originalFee - transferFee

netCreditAmount ==
    LET originalFee == initData.originalProgramFeeTotal
        transferFee == IF applyTransferFee THEN OrZero(transferFeeAmount) ELSE 0
    IN  originalFee - transferFee

formattedNetCredit == CurrencyFormat(netCreditAmount)

\* extractErrorMessage reading the top-level message before body.message.
extractErrorMessageTopFirst(error) ==
    IF error.isString THEN error.str
    ELSE IF error.message # "" THEN error.message
    ELSE IF error.bodyMessage # "" THEN error.bodyMessage
    ELSE "JSON"

\* extractErrorMessage without the test for a string.
extractErrorMessageObjectsOnly(error) ==
    IF error.bodyMessage # "" THEN error.bodyMessage
    ELSE IF error.message # "" THEN error.message
    ELSE "JSON"

extractErrorMessage(error) ==
    IF error.isString THEN error.str
    ELSE IF error.bodyMessage # "" THEN error.bodyMessage
    ELSE IF error.message # "" THEN error.message
    ELSE "JSON"

Toast(title, message, detail, variant) ==
    [title |-> title, message |-> message, detail |-> detail, variant |-> variant]

\* ---------------------------------------------------------------- template
\* What transferRegistration.html renders decides which handlers the operator
\* can reach.  The wizard body is rendered when isReady, the footer with Back
\* and Next when showFooter, each step's inputs on that step's screen; the
\* control that dispatches a call is disabled while the call's busy flag is
\* set.  The Next button is not tied to disableNext here: handleNext repeats
\* the gate's tests itself.  The Cancel button stays enabled while a call is
\* pending: handleCancel clears isProcessing and isSearchingContacts itself.

bodyRendered == isReady
footerRendered == showFooter
backButtonRendered == showFooter /\ showBackButton
executeButtonEnabled == showFooter /\ showExecuteButton /\ ~isProcessing
cancelFeeAmountEnabled == applyCancellationFee

\* The model bounds how many input fields differ from the values handleCancel
\* gives them (a fee amount counts once the operator has typed it).
D(dirty) == IF dirty THEN 1 ELSE 0

\* The number of input fields that differ from their reset values.
DirtyCount ==
    D(newProgramFeeAmount.t = "str") + D(~applyTransferFee)
    + D(transferFeeAmount.t = "str") + D(settlementType # "")
    + D(applyDiscount) + D(discountAmount # Num(0)) + D(discountCode # "")
    + D(applyCancellationFee) + D(cancellationFeeAmount # Num(0))
    + D(cancelSettlementType # "") + D(contactSearchTerm # "")
    + D(selectedContact # NoContact) + D(~applySubstitutionDiscount)

\* The operator may change an input field that is dirty already, or any
\* field while fewer than MaxDirtyFields are.
CanEdit(dirty) == dirty \/ DirtyCount < MaxDirtyFields

RECURSIVE SumOver(_)
SumOver(cs) ==
    IF cs = {} THEN 0
    ELSE LET c == CHOOSE x \in cs : TRUE IN inflight[c] + SumOver(cs \ {c})

\* inflight[c] is the number of calls c awaiting their response.
InFlightCount == SumOver(Calls)

\* A call can be dispatched: the model keeps at most pool calls in flight.
CanDispatch(pool) == InFlightCount < pool

\* inflight with one more call c, and with one call c less.
With(c) == [inflight EXCEPT ![c] = @ + 1]
Without(c) == [inflight EXCEPT ![c] = @ - 1]

\* A response to call c may arrive.
Pending(c, name) == c.call = name /\ inflight[c] > 0

\* The history variable after a step that assigns currentStep.
StepHistory ==
    enteredStep3From' =
        IF currentStep' # "3" THEN ""
        ELSE IF currentStep = "3" THEN enteredStep3From
        ELSE currentStep

\* --------------------------------------------------------------- lifecycle

\* connectedCallback -> loadInitData up to its await.
connectedCallback ==
    /\ ~connected
    /\ connected' = TRUE
    /\ isLoading' = TRUE
    /\ hasError' = FALSE
    /\ inflight' = With(Call("getInitData", ""))
    /\ toast' = NoToast
    /\ UNCHANGED <<recordId, currentStep, enteredStep3From, changeType,
                   isProcessing, errorMessage,
                   initData, availablePrograms, transferVars, cancellationVars,
                   substitutionVars>>

\* loadInitData after getInitData resolves with d.
loadInitDataResolved(c, d) ==
    /\ Pending(c, "getInitData")
    /\ inflight' = Without(c)
    /\ initData' = d
    /\ availablePrograms' = IF d.hasPrograms THEN d.availablePrograms ELSE {}
    /\ isLoading' = FALSE
    /\ toast' = NoToast
    /\ UNCHANGED <<recordId, connected, currentStep, enteredStep3From, changeType,
                   isProcessing,
                   hasError, errorMessage, transferVars, cancellationVars,
                   substitutionVars>>

\* loadInitData whose catch block does not set hasError.
loadInitDataRejectedUnflagged(c, error) ==
    /\ Pending(c, "getInitData")
    /\ inflight' = Without(c)
    /\ errorMessage' = extractErrorMessage(error)
    /\ isLoading' = FALSE
    /\ toast' = NoToast
    /\ UNCHANGED <<recordId, connected, currentStep, enteredStep3From, changeType,
                   isProcessing, hasError,
                   initData, availablePrograms, transferVars, cancellationVars,
                   substitutionVars>>

\* loadInitData after getInitData rejects with error.
loadInitDataRejected(c, error) ==
    /\ Pending(c, "getInitData")
    /\ inflight' = Without(c)
    /\ hasError' = TRUE
    /\ errorMessage' = extractErrorMessage(error)
    /\ isLoading' = FALSE
    /\ toast' = NoToast
    /\ UNCHANGED <<recordId, connected, currentStep, enteredStep3From, changeType,
                   isProcessing,
                   initData, availablePrograms, transferVars, cancellationVars,
                   substitutionVars>>

\* ------------------------------------------------------ step 0: change type

SetChangeType(v) ==
    /\ bodyRendered
    /\ isStep0
    /\ changeType' = v
    /\ toast' = NoToast
    /\ UNCHANGED <<recordId, connected, inflight, currentStep, enteredStep3From,
                   isLoading,
                   isProcessing, hasError, errorMessage, initData,
                   availablePrograms, transferVars, cancellationVars,
                   substitutionVars>>

handleChangeTypeSelect(v) == SetChangeType(v)
handleCancellationClick == SetChangeType("Cancellation")
handleSubstitutionClick == SetChangeType("Substitution")
handleTransferClick == SetChangeType("Transfer")

\* ------------------------------------------------- Transfer steps 1 and 2

\* row is event.detail.selectedRows[0], a catalog row, or NoProgram when no
\* row is selected.
handleProgramSelect(row) ==
    /\ bodyRendered
    /\ isTransferStep1
    /\ selectedProgram' = row
    /\ toast' = NoToast
    /\ UNCHANGED <<recordId, connected, inflight, commonVars, programDetails,
                   newProgramFeeAmount, applyTransferFee, transferFeeAmount,
                   settlementType, applyDiscount, discountAmount, discountCode,
                   transferResult, cancellationVars, substitutionVars>>

handleFeeChange(text) ==
    /\ bodyRendered
    /\ CanEdit(newProgramFeeAmount.t = "str")
    /\ isTransferStep2
    /\ newProgramFeeAmount' = Str(text)
    /\ toast' = NoToast
    /\ UNCHANGED <<recordId, connected, inflight, commonVars, selectedProgram,
                   programDetails, applyTransferFee, transferFeeAmount,
                   settlementType, applyDiscount, discountAmount, discountCode,
                   transferResult, cancellationVars, substitutionVars>>

handleTransferFeeToggle(checked) ==
    /\ bodyRendered
    /\ CanEdit(~applyTransferFee)
    /\ isTransferStep2
    /\ applyTransferFee' = checked
    /\ toast' = NoToast
    /\ UNCHANGED <<recordId, connected, inflight, commonVars, selectedProgram,
                   programDetails, newProgramFeeAmount, transferFeeAmount,
                   settlementType, applyDiscount, discountAmount, discountCode,
                   transferResult, cancellationVars, substitutionVars>>

handleTransferFeeAmountChange(text) ==
    /\ bodyRendered
    /\ CanEdit(transferFeeAmount.t = "str")
    /\ isTransferStep2
    /\ transferFeeAmount' = Str(text)
    /\ toast' = NoToast
    /\ UNCHANGED <<recordId, connected, inflight, commonVars, selectedProgram,
                   programDetails, newProgramFeeAmount, applyTransferFee,
                   settlementType, applyDiscount, discountAmount, discountCode,
                   transferResult, cancellationVars, substitutionVars>>

handleSettlementChange(value) ==
    /\ bodyRendered
    /\ CanEdit(settlementType # "")
    /\ isTransferStep2
    /\ settlementType' = value
    /\ toast' = NoToast
    /\ UNCHANGED <<recordId, connected, inflight, commonVars, selectedProgram,
                   programDetails, newProgramFeeAmount, applyTransferFee,
                   transferFeeAmount, applyDiscount, discountAmount, discountCode,
                   transferResult, cancellationVars, substitutionVars>>

handleDiscountToggle(checked) ==
    /\ bodyRendered
    /\ CanEdit(applyDiscount)
    /\ isTransferStep2
    /\ applyDiscount' = checked
    /\ discountAmount' = IF checked THEN discountAmount ELSE Num(0)
    /\ discountCode' = IF checked THEN discountCode ELSE ""
    /\ toast' = NoToast
    /\ UNCHANGED <<recordId, connected, inflight, commonVars, selectedProgram,
                   programDetails, newProgramFeeAmount, applyTransferFee,
                   transferFeeAmount, settlementType, transferResult,
                   cancellationVars, substitutionVars>>

handleDiscountAmountChange(text) ==
    /\ bodyRendered
    /\ CanEdit(discountAmount # Num(0))
    /\ isTransferStep2
    /\ discountAmount' = Str(text)
    /\ toast' = NoToast
    /\ UNCHANGED <<recordId, connected, inflight, commonVars, selectedProgram,
                   programDetails, newProgramFeeAmount, applyTransferFee,
                   transferFeeAmount, settlementType, applyDiscount, discountCode,
                   transferResult, cancellationVars, substitutionVars>>

handleDiscountCodeChange(text) ==
    /\ bodyRendered
    /\ CanEdit(discountCode # "")
    /\ isTransferStep2
    /\ discountCode' = text
    /\ toast' = NoToast
    /\ UNCHANGED <<recordId, connected, inflight, commonVars, selectedProgram,
                   programDetails, newProgramFeeAmount, applyTransferFee,
                   transferFeeAmount, settlementType, applyDiscount,
                   discountAmount, transferResult, cancellationVars,
                   substitutionVars>>

\* ------------------------------------------------ Cancellation steps 1 and 2

handleCancelFeeToggle(checked) ==
    /\ bodyRendered
    /\ CanEdit(applyCancellationFee)
    /\ isCancellationStep1
    /\ applyCancellationFee' = checked
    /\ cancellationFeeAmount' = IF checked THEN cancellationFeeAmount ELSE Num(0)
    /\ toast' = NoToast
    /\ UNCHANGED <<recordId, connected, inflight, commonVars, transferVars,
                   cancelSettlementType, cancellationResult, substitutionVars>>

handleCancelFeeAmountChange(text) ==
    /\ bodyRendered
    /\ CanEdit(cancellationFeeAmount # Num(0))
    /\ isCancellationStep1
    /\ cancelFeeAmountEnabled
    /\ cancellationFeeAmount' = Str(text)
    /\ toast' = NoToast
    /\ UNCHANGED <<recordId, connected, inflight, commonVars, transferVars,
                   applyCancellationFee, cancelSettlementType, cancellationResult,
                   substitutionVars>>

\* value is one of the options the combobox offers.
handleCancelSettlementChange(value) ==
    /\ bodyRendered
    /\ CanEdit(cancelSettlementType # "")
    /\ isCancellationStep2
    /\ cancelSettlementType' = value
    /\ toast' = NoToast
    /\ UNCHANGED <<recordId, connected, inflight, commonVars, transferVars,
                   applyCancellationFee, cancellationFeeAmount, cancellationResult,
                   substitutionVars>>

\* ------------------------------------------------------ Substitution step 1

\* handleContactSearch up to its await (or to its early return).
\* handleContactSearch leaving the listed contacts when the term is short.
handleContactSearchKeepsResults(pool, text) ==
    /\ bodyRendered
    /\ CanEdit(contactSearchTerm # "")
    /\ isSubstitutionStep1
    /\ contactSearchTerm' = text
    /\ toast' = NoToast
    /\ IF text = "" \/ TextLength(text) < MinSearchLength
       THEN UNCHANGED <<contactSearchResults, isSearchingContacts, inflight>>
       ELSE /\ CanDispatch(pool)
            /\ isSearchingContacts' = TRUE
            /\ inflight' = With(Call("searchContacts", text))
            /\ UNCHANGED contactSearchResults
    /\ UNCHANGED <<recordId, connected, commonVars, transferVars,
                   cancellationVars, selectedContact, applySubstitutionDiscount,
                   substitutionResult>>

handleContactSearch(pool, text) ==
    /\ bodyRendered
    /\ CanEdit(contactSearchTerm # "")
    /\ isSubstitutionStep1
    /\ contactSearchTerm' = text
    /\ toast' = NoToast
    /\ IF text = "" \/ TextLength(text) < MinSearchLength
       THEN /\ contactSearchResults' = {}
            /\ UNCHANGED <<isSearchingContacts, inflight>>
       ELSE /\ CanDispatch(pool)
            /\ isSearchingContacts' = TRUE
            /\ inflight' = With(Call("searchContacts", text))
            /\ UNCHANGED contactSearchResults
    /\ UNCHANGED <<recordId, connected, commonVars, transferVars,
                   cancellationVars, selectedContact, applySubstitutionDiscount,
                   substitutionResult>>

\* handleContactSearch after searchContacts resolves with found.
handleContactSearchResolved(c, found) ==
    /\ Pending(c, "searchContacts")
    /\ inflight' = Without(c)
    /\ contactSearchResults' = found
    /\ isSearchingContacts' = FALSE
    /\ toast' = NoToast
    /\ UNCHANGED <<recordId, connected, commonVars, transferVars,
                   cancellationVars, contactSearchTerm, selectedContact,
                   applySubstitutionDiscount, substitutionResult>>

\* handleContactSearch after searchContacts rejects with error.
handleContactSearchRejected(c, error) ==
    /\ Pending(c, "searchContacts")
    /\ inflight' = Without(c)
    /\ contactSearchResults' = {}
    /\ isSearchingContacts' = FALSE
    /\ toast' = Toast("Error", "Failed to search contacts: ",
                      extractErrorMessage(error), "error")
    /\ UNCHANGED <<recordId, connected, commonVars, transferVars,
                   cancellationVars, contactSearchTerm, selectedContact,
                   applySubstitutionDiscount, substitutionResult>>

\* The clicked row is one of the listed results.
handleContactSelect(contact) ==
    /\ bodyRendered
    /\ CanEdit(selectedContact # NoContact)
    /\ isSubstitutionStep1
    /\ contact \in contactSearchResults
    /\ selectedContact' = contact
    /\ toast' = NoToast
    /\ UNCHANGED <<recordId, connected, inflight, commonVars, transferVars,
                   cancellationVars, contactSearchTerm, contactSearchResults,
                   applySubstitutionDiscount, substitutionResult,
                   isSearchingContacts>>

handleClearContactSelection ==
    /\ bodyRendered
    /\ isSubstitutionStep1
    /\ selectedContact' = NoContact
    /\ contactSearchTerm' = ""
    /\ contactSearchResults' = {}
    /\ toast' = NoToast
    /\ UNCHANGED <<recordId, connected, inflight, commonVars, transferVars,
                   cancellationVars, applySubstitutionDiscount,
                   substitutionResult, isSearchingContacts>>

\* value is 'yes' or 'no'.
handleSubstitutionDiscountToggle(value) ==
    /\ bodyRendered
    /\ CanEdit(~applySubstitutionDiscount)
    /\ isSubstitutionStep2
    /\ applySubstitutionDiscount' = (value = "yes")
    /\ toast' = NoToast
    /\ UNCHANGED <<recordId, connected, inflight, commonVars, transferVars,
                   cancellationVars, contactSearchTerm, contactSearchResults,
                   selectedContact, substitutionResult, isSearchingContacts>>

\* -------------------------------------------------------------- validation

\* validateStep2 with the discount test left out.
validateStep2ToastFeeOnly ==
    IF newProgramFeeAmount = Str("")
    THEN Toast("Validation Error", "Please enter the new program fee amount.",
               "", "error")
    ELSE IF ToNumber(newProgramFeeAmount) < 0
    THEN Toast("Validation Error", "Program fee amount cannot be negative.",
               "", "error")
    ELSE NoToast

\* validateStep2: the toast it shows, NoToast when it returns true.
validateStep2Toast ==
    IF newProgramFeeAmount = Str("")
    THEN Toast("Validation Error", "Please enter the new program fee amount.",
               "", "error")
    ELSE IF ToNumber(newProgramFeeAmount) < 0
    THEN Toast("Validation Error", "Program fee amount cannot be negative.",
               "", "error")
    ELSE IF applyDiscount
            /\ ~(Truthy(discountAmount) /\ ToNumber(discountAmount) > 0)
            /\ ~(discountCode # "" /\ TrimNonEmpty(discountCode))
    THEN Toast("Validation Error",
               "Please enter either a discount amount or a discount code.",
               "", "error")
    ELSE NoToast

validateStep2 == validateStep2Toast = NoToast

\* -------------------------------------------------------------- navigation
\* handleNext is computed as an outcome: the step it leaves, the toast it
\* shows, whether it returned early, and whether it stopped at the await of
\* loadProgramDetails.

Outcome(step, t, returned, load) ==
    [step |-> step, toast |-> t, returned |-> returned, load |-> load]

\* The fee test of handleNext at Cancellation step 1.
cancellationFeeInvalid ==
    applyCancellationFee
    /\ (~Truthy(cancellationFeeAmount) \/ ToNumber(cancellationFeeAmount) <= 0)

\* The isCancellationPath block of handleNext, entered with currentStep = step.
CancellationBlock(step) ==
    IF ~isCancellationPath THEN Outcome(step, NoToast, FALSE, FALSE)
    ELSE IF step = "1" THEN
        IF cancellationFeeInvalid
        THEN Outcome(step, Toast("Error",
                 "Please enter a valid cancellation fee amount.", "", "error"),
                 TRUE, FALSE)
        ELSE IF requiresSettlementScreen
        THEN Outcome("2", NoToast, FALSE, FALSE)
        ELSE Outcome("3", NoToast, FALSE, FALSE)
    ELSE IF step = "2" THEN
        IF cancelSettlementType = ""
        THEN Outcome(step, Toast("Error", "Please select a settlement type.",
                 "", "error"), TRUE, FALSE)
        ELSE Outcome("3", NoToast, FALSE, FALSE)
    ELSE Outcome(step, NoToast, FALSE, FALSE)

\* The isSubstitutionPath block with the selectedContact test left out.
SubstitutionBlockUngated(step) ==
    IF isSubstitutionPath /\ step = "1"
    THEN [step |-> "2", toast |-> NoToast, returned |-> FALSE, load |-> FALSE]
    ELSE [step |-> step, toast |-> NoToast, returned |-> FALSE, load |-> FALSE]

\* The isSubstitutionPath block of handleNext, entered with currentStep = step.
SubstitutionBlock(step) ==
    IF isSubstitutionPath /\ step = "1" THEN
        IF selectedContact = NoContact
        THEN Outcome(step, Toast("Error", "Please select a substitute contact.",
                 "", "error"), TRUE, FALSE)
        ELSE Outcome("2", NoToast, FALSE, FALSE)
    ELSE Outcome(step, NoToast, FALSE, FALSE)

\* handleNext from the end of its isTransferPath block.
AfterTransferBlock(step) ==
    LET c == CancellationBlock(step)
    IN  IF c.returned THEN c ELSE SubstitutionBlock(c.step)

\* The isTransferPath block of handleNext.
TransferBlock ==
    IF ~isTransferPath THEN Outcome(currentStep, NoToast, FALSE, FALSE)
    ELSE IF currentStep = "1" THEN
        IF selectedProgram = NoProgram
        THEN Outcome(currentStep, Toast("Error",
                 "Please select a program to transfer to.", "", "error"),
                 TRUE, FALSE)
        ELSE Outcome(currentStep, NoToast, FALSE, TRUE)
    ELSE IF currentStep = "2" THEN
        IF ~validateStep2
        THEN Outcome(currentStep, validateStep2Toast, TRUE, FALSE)
        ELSE Outcome("3", NoToast, FALSE, FALSE)
    ELSE Outcome(currentStep, NoToast, FALSE, FALSE)

\* handleNext up to its return or to the await of loadProgramDetails.
NextOutcome ==
    IF currentStep = "0" THEN
        IF changeType = ""
        THEN Outcome("0", Toast("Error", "Please select a change type.",
                 "", "error"), TRUE, FALSE)
        ELSE Outcome("1", NoToast, TRUE, FALSE)
    ELSE LET t == TransferBlock
         IN  IF t.returned \/ t.load THEN t ELSE AfterTransferBlock(t.step)

handleNext(pool) ==
    /\ footerRendered
    /\ IF NextOutcome.load
       THEN \* loadProgramDetails up to its await
            /\ CanDispatch(pool)
            /\ isLoading' = TRUE
            /\ inflight' = With(Call("getProgramDetails", ""))
            /\ toast' = NoToast
            /\ UNCHANGED <<currentStep, enteredStep3From>>
       ELSE /\ currentStep' = NextOutcome.step
            /\ StepHistory
            /\ toast' = NextOutcome.toast
            /\ UNCHANGED <<isLoading, inflight>>
    /\ UNCHANGED <<recordId, connected, changeType, isProcessing, hasError,
                   errorMessage, initData, availablePrograms, transferVars,
                   cancellationVars, substitutionVars>>

\* The step handleNext sets once loadProgramDetails has returned.
ProgramDetailsLoadedStep == "2"

\* loadProgramDetailsResolved writing transferFeeAmount without a fee item too.
loadProgramDetailsResolvedZeroesFee(c, details) ==
    LET useRow == details.expectedProgramFee = 0
        throws == useRow /\ selectedProgram = NoProgram
        tail == AfterTransferBlock(ProgramDetailsLoadedStep)
        failed == Toast("Error", "Failed to load program details: ",
                        extractErrorMessage(TypeError), "error")
    IN  /\ Pending(c, "getProgramDetails")
        /\ inflight' = Without(c)
        /\ programDetails' = details
        /\ newProgramFeeAmount' =
               IF throws THEN newProgramFeeAmount
               ELSE IF ~useRow THEN Num(details.expectedProgramFee)
               ELSE Num(selectedProgram.Expected_Program_Fee__c)
        /\ transferFeeAmount' =
               IF ~throws
               THEN Num(details.UnitPrice) ELSE transferFeeAmount
        /\ isLoading' = FALSE
        /\ currentStep' = tail.step
        /\ StepHistory
        /\ toast' = IF tail.toast # NoToast THEN tail.toast
                    ELSE IF throws THEN failed ELSE NoToast
        /\ UNCHANGED <<recordId, connected, changeType, isProcessing, hasError,
                       errorMessage, initData, availablePrograms,
                       selectedProgram, applyTransferFee, settlementType,
                       applyDiscount, discountAmount, discountCode,
                       transferResult, cancellationVars, substitutionVars>>

\* handleNext after getProgramDetails resolves with details.  Reading
\* selectedProgram.Expected_Program_Fee__c of a null selectedProgram throws
\* inside the try block of loadProgramDetails.
loadProgramDetailsResolved(c, details) ==
    LET useRow == details.expectedProgramFee = 0
        throws == useRow /\ selectedProgram = NoProgram
        tail == AfterTransferBlock(ProgramDetailsLoadedStep)
        failed == Toast("Error", "Failed to load program details: ",
                        extractErrorMessage(TypeError), "error")
    IN  /\ Pending(c, "getProgramDetails")
        /\ inflight' = Without(c)
        /\ programDetails' = details
        /\ newProgramFeeAmount' =
               IF throws THEN newProgramFeeAmount
               ELSE IF ~useRow THEN Num(details.expectedProgramFee)
               ELSE Num(selectedProgram.Expected_Program_Fee__c)
        /\ transferFeeAmount' =
               IF ~throws /\ details.hasTransferFeePBE
               THEN Num(details.UnitPrice) ELSE transferFeeAmount
        /\ isLoading' = FALSE
        /\ currentStep' = tail.step
        /\ StepHistory
        /\ toast' = IF tail.toast # NoToast THEN tail.toast
                    ELSE IF throws THEN failed ELSE NoToast
        /\ UNCHANGED <<recordId, connected, changeType, isProcessing, hasError,
                       errorMessage, initData, availablePrograms,
                       selectedProgram, applyTransferFee, settlementType,
                       applyDiscount, discountAmount, discountCode,
                       transferResult, cancellationVars, substitutionVars>>

\* handleNext after getProgramDetails rejects with error.
loadProgramDetailsRejected(c, error) ==
    LET tail == AfterTransferBlock(ProgramDetailsLoadedStep)
    IN  /\ Pending(c, "getProgramDetails")
        /\ inflight' = Without(c)
        /\ isLoading' = FALSE
        /\ currentStep' = tail.step
        /\ StepHistory
        /\ toast' = IF tail.toast # NoToast THEN tail.toast
                    ELSE Toast("Error", "Failed to load program details: ",
                               extractErrorMessage(error), "error")
        /\ UNCHANGED <<recordId, connected, changeType, isProcessing, hasError,
                       errorMessage, initData, availablePrograms, transferVars,
                       cancellationVars, substitutionVars>>

handleBack ==
    /\ backButtonRendered
    /\ currentStep' =
          IF currentStep = "1" THEN "0"
          ELSE IF currentStep = "2" THEN "1"
          ELSE IF currentStep = "3" THEN
              IF isCancellationPath /\ ~requiresSettlementScreen THEN "1" ELSE "2"
          ELSE currentStep
    /\ StepHistory
    /\ toast' = NoToast
    /\ UNCHANGED <<recordId, connected, inflight, changeType, isLoading,
                   isProcessing, hasError, errorMessage, initData,
                   availablePrograms, transferVars, cancellationVars,
                   substitutionVars>>

\* handleCancel without the reset of the three result objects.
handleCancelKeepsResults ==
    /\ bodyRendered
    /\ currentStep' = "0"
    /\ StepHistory
    /\ changeType' = ""
    /\ selectedProgram' = NoProgram
    /\ programDetails' = NoDetails
    /\ newProgramFeeAmount' = Num(0)
    /\ applyTransferFee' = TRUE
    /\ transferFeeAmount' = Num(0)
    /\ settlementType' = ""
    /\ applyDiscount' = FALSE
    /\ discountAmount' = Num(0)
    /\ discountCode' = ""
    /\ applyCancellationFee' = FALSE
    /\ cancellationFeeAmount' = Num(0)
    /\ cancelSettlementType' = ""
    /\ contactSearchTerm' = ""
    /\ contactSearchResults' = {}
    /\ selectedContact' = NoContact
    /\ applySubstitutionDiscount' = TRUE
    /\ isSearchingContacts' = FALSE
    /\ isProcessing' = FALSE
    /\ toast' = NoToast
    /\ UNCHANGED <<recordId, connected, inflight, isLoading, hasError,
                   errorMessage, initData, availablePrograms, transferResult,
                   cancellationResult, substitutionResult>>

\* handleCancel emptying initData and availablePrograms as well.
handleCancelDropsInitData ==
    /\ bodyRendered
    /\ currentStep' = "0"
    /\ StepHistory
    /\ changeType' = ""
    /\ selectedProgram' = NoProgram
    /\ programDetails' = NoDetails
    /\ newProgramFeeAmount' = Num(0)
    /\ applyTransferFee' = TRUE
    /\ transferFeeAmount' = Num(0)
    /\ settlementType' = ""
    /\ applyDiscount' = FALSE
    /\ discountAmount' = Num(0)
    /\ discountCode' = ""
    /\ transferResult' = EmptyResult
    /\ applyCancellationFee' = FALSE
    /\ cancellationFeeAmount' = Num(0)
    /\ cancelSettlementType' = ""
    /\ cancellationResult' = EmptyResult
    /\ contactSearchTerm' = ""
    /\ contactSearchResults' = {}
    /\ selectedContact' = NoContact
    /\ applySubstitutionDiscount' = TRUE
    /\ substitutionResult' = EmptyResult
    /\ isSearchingContacts' = FALSE
    /\ isProcessing' = FALSE
    /\ toast' = NoToast
    /\ initData' = EmptyInitData
    /\ availablePrograms' = {}
    /\ UNCHANGED <<recordId, connected, inflight, isLoading, hasError,
                   errorMessage>>

handleCancel ==
    /\ bodyRendered
    /\ currentStep' = "0"
    /\ StepHistory
    /\ changeType' = ""
    /\ selectedProgram' = NoProgram
    /\ programDetails' = NoDetails
    /\ newProgramFeeAmount' = Num(0)
    /\ applyTransferFee' = TRUE
    /\ transferFeeAmount' = Num(0)
    /\ settlementType' = ""
    /\ applyDiscount' = FALSE
    /\ discountAmount' = Num(0)
    /\ discountCode' = ""
    /\ transferResult' = EmptyResult
    /\ applyCancellationFee' = FALSE
    /\ cancellationFeeAmount' = Num(0)
    /\ cancelSettlementType' = ""
    /\ cancellationResult' = EmptyResult
    /\ contactSearchTerm' = ""
    /\ contactSearchResults' = {}
    /\ selectedContact' = NoContact
    /\ applySubstitutionDiscount' = TRUE
    /\ substitutionResult' = EmptyResult
    /\ isSearchingContacts' = FALSE
    /\ isProcessing' = FALSE
    /\ toast' = NoToast
    /\ UNCHANGED <<recordId, connected, inflight, isLoading, hasError,
                   errorMessage, initData, availablePrograms>>

\* ----------------------------------------------------------------- execute

\* const attendeeId = this.recordId || this.initData?.attendee?.Id
resolvedAttendeeId == IF recordId # "" THEN recordId ELSE initData.attendeeId

\* attendeeIdUnresolved without the length test.
attendeeIdUnresolvedEmptyOnly == resolvedAttendeeId = ""

\* !attendeeId || attendeeId === '' || attendeeId.length < 15
attendeeIdUnresolved ==
    resolvedAttendeeId = "" \/ IdLength(resolvedAttendeeId) < MinIdLength

\* The request handleExecuteTransfer assembles.
transferRequest ==
    [attendeeId |-> resolvedAttendeeId,
     newSpecialEventId |-> selectedProgram.Id,
     applyTransferFee |-> applyTransferFee,
     transferFeeAmount |->
         IF applyTransferFee THEN ToNumber(transferFeeAmount) ELSE 0,
     applyDiscount |-> applyDiscount,
     discountAmount |-> IF applyDiscount THEN ToNumber(discountAmount) ELSE 0,
     discountCode |-> IF applyDiscount THEN discountCode ELSE "",
     newProgramFeeAmount |-> ToNumber(newProgramFeeAmount)]

\* this.cancelSettlementType || null
Null == "<null>"

\* The request handleExecuteCancellation assembles.
cancellationRequest ==
    [attendeeId |-> resolvedAttendeeId,
     applyCancellationFee |-> applyCancellationFee,
     cancellationFeeAmount |->
         IF applyCancellationFee THEN ToNumber(cancellationFeeAmount) ELSE 0,
     settlementType |->
         IF cancelSettlementType # "" THEN cancelSettlementType ELSE Null]

UnresolvedToast(message) == Toast("Error", message, "", "error")

\* The catch block of an execute handler after a TypeError.
TypeErrorToast == Toast("Error", "", extractErrorMessage(TypeError), "error")

\* An execute handler up to its await, or to the return or throw before it
\* (abortToast is the toast of that return or throw, NoToast when the call is
\* made).
ExecuteDispatch(pool, call, abortToast) ==
    /\ IF abortToast # NoToast
       THEN /\ toast' = abortToast
            /\ isProcessing' = FALSE
            /\ UNCHANGED inflight
       ELSE /\ CanDispatch(pool)
            /\ toast' = NoToast
            /\ isProcessing' = TRUE
            /\ inflight' = With(Call(call, ""))
    /\ UNCHANGED <<recordId, connected, currentStep, enteredStep3From, changeType,
                   isLoading,
                   hasError, errorMessage, initData, availablePrograms,
                   transferVars, cancellationVars, substitutionVars>>

handleExecuteTransfer(pool) ==
    /\ executeButtonEnabled
    /\ isTransferStep3
    /\ ExecuteDispatch(pool, "executeTransfer",
          IF attendeeIdUnresolved
          THEN UnresolvedToast("Unable to determine Attendee ID. recordId=")
          ELSE IF selectedProgram = NoProgram THEN TypeErrorToast
          ELSE NoToast)

handleExecuteCancellation(pool) ==
    /\ executeButtonEnabled
    /\ isCancellationStep3
    /\ ExecuteDispatch(pool, "executeCancellation",
          IF attendeeIdUnresolved
          THEN UnresolvedToast(
                   "Unable to determine Attendee ID. Please refresh and try again.")
          ELSE NoToast)

handleExecuteSubstitution(pool) ==
    /\ executeButtonEnabled
    /\ isSubstitutionStep2
    /\ ExecuteDispatch(pool, "executeSubstitution",
          IF attendeeIdUnresolved
          THEN UnresolvedToast(
                   "Unable to determine Attendee ID. Please refresh and try again.")
          ELSE IF selectedContact = NoContact
          THEN UnresolvedToast("No substitute contact selected.")
          ELSE NoToast)

\* handleExecuteTransfer after executeTransfer resolves with result.  The
\* success toast reads selectedProgram.Name, which throws into the catch block
\* when selectedProgram is null.
handleExecuteTransferResolved(c, result) ==
    /\ Pending(c, "executeTransfer")
    /\ inflight' = Without(c)
    /\ IF result.success
       THEN /\ transferResult' = result
            /\ currentStep' = "4"
            /\ StepHistory
            /\ toast' = IF selectedProgram = NoProgram THEN TypeErrorToast
                        ELSE Toast("Transfer Successful", "", "", "success")
       ELSE /\ toast' = Toast("Transfer Failed", "", result.errorMessage, "error")
            /\ UNCHANGED <<transferResult, currentStep, enteredStep3From>>
    /\ isProcessing' = FALSE
    /\ UNCHANGED <<recordId, connected, changeType, isLoading, hasError,
                   errorMessage, initData, availablePrograms, selectedProgram,
                   programDetails, newProgramFeeAmount, applyTransferFee,
                   transferFeeAmount, settlementType, applyDiscount,
                   discountAmount, discountCode, cancellationVars,
                   substitutionVars>>

\* handleExecuteCancellationResolved without the result.success test.
handleExecuteCancellationResolvedUnchecked(c, result) ==
    /\ Pending(c, "executeCancellation")
    /\ inflight' = Without(c)
    /\ IF TRUE
       THEN /\ cancellationResult' = result
            /\ currentStep' = "4"
            /\ StepHistory
            /\ toast' = Toast("Cancellation Successful", "", "", "success")
       ELSE /\ toast' = Toast("Cancellation Failed", "", result.errorMessage,
                              "error")
            /\ UNCHANGED <<cancellationResult, currentStep,
                            enteredStep3From>>
    /\ isProcessing' = FALSE
    /\ UNCHANGED <<recordId, connected, changeType, isLoading, hasError,
                   errorMessage, initData, availablePrograms, transferVars,
                   applyCancellationFee, cancellationFeeAmount,
                   cancelSettlementType, substitutionVars>>

\* handleExecuteCancellation after executeCancellation resolves with result.
handleExecuteCancellationResolved(c, result) ==
    /\ Pending(c, "executeCancellation")
    /\ inflight' = Without(c)
    /\ IF result.success
       THEN /\ cancellationResult' = result
            /\ currentStep' = "4"
            /\ StepHistory
            /\ toast' = Toast("Cancellation Successful", "", "", "success")
       ELSE /\ toast' = Toast("Cancellation Failed", "", result.errorMessage,
                              "error")
            /\ UNCHANGED <<cancellationResult, currentStep,
                            enteredStep3From>>
    /\ isProcessing' = FALSE
    /\ UNCHANGED <<recordId, connected, changeType, isLoading, hasError,
                   errorMessage, initData, availablePrograms, transferVars,
                   applyCancellationFee, cancellationFeeAmount,
                   cancelSettlementType, substitutionVars>>

\* handleExecuteSubstitution after executeSubstitution resolves with result.
\* The success toast reads selectedContact.name, which throws into the catch
\* block when selectedContact is null.
handleExecuteSubstitutionResolved(c, result) ==
    /\ Pending(c, "executeSubstitution")
    /\ inflight' = Without(c)
    /\ IF result.success
       THEN /\ substitutionResult' = result
            /\ currentStep' = "3"
            /\ StepHistory
            /\ toast' = IF selectedContact = NoContact THEN TypeErrorToast
                        ELSE Toast("Substitution Successful", "", "", "success")
       ELSE /\ toast' = Toast("Substitution Failed", "", result.errorMessage,
                              "error")
            /\ UNCHANGED <<substitutionResult, currentStep,
                            enteredStep3From>>
    /\ isProcessing' = FALSE
    /\ UNCHANGED <<recordId, connected, changeType, isLoading, hasError,
                   errorMessage, initData, availablePrograms, transferVars,
                   cancellationVars, contactSearchTerm, contactSearchResults,
                   selectedContact, applySubstitutionDiscount,
                   isSearchingContacts>>

\* handleExecuteRejected without the finally block.
handleExecuteRejectedNoFinally(c, error) ==
    /\ c.call \in ExecuteCalls
    /\ inflight[c] > 0
    /\ inflight' = Without(c)
    /\ toast' = Toast("Error", "", extractErrorMessage(error), "error")
    /\ UNCHANGED <<isProcessing, recordId, connected, currentStep, enteredStep3From, changeType,
                   isLoading,
                   hasError, errorMessage, initData, availablePrograms,
                   transferVars, cancellationVars, substitutionVars>>

\* Any execute handler after its Apex call rejects with error.
handleExecuteRejected(c, error) ==
    /\ c.call \in ExecuteCalls
    /\ inflight[c] > 0
    /\ inflight' = Without(c)
    /\ toast' = Toast("Error", "", extractErrorMessage(error), "error")
    /\ isProcessing' = FALSE
    /\ UNCHANGED <<recordId, connected, currentStep, enteredStep3From, changeType,
                   isLoading,
                   hasError, errorMessage, initData, availablePrograms,
                   transferVars, cancellationVars, substitutionVars>>

\* ---------------------------------------------------------------- behaviour

\* Handlers of Transfer step 2 that write fields no navigation step reads:
\* the transfer fee and the transfer settlement.
TransferDetailInput ==
    \/ \E checked \in BOOLEAN : handleTransferFeeToggle(checked)
    \/ \E text \in TransferFeeTexts : handleTransferFeeAmountChange(text)
    \/ \E value \in SETTLEMENT_OPTIONS : handleSettlementChange(value)

\* Handlers that write fields no navigation step reads: those of Transfer
\* step 2 and the substitution discount.
DetailInput ==
    \/ TransferDetailInput
    \/ \E value \in {"yes", "no"} : handleSubstitutionDiscountToggle(value)

\* The change type buttons of step 0.
ChangeTypeInput ==
    \/ \E v \in {"Cancellation", "Substitution", "Transfer"} :
          handleChangeTypeSelect(v)
    \/ handleCancellationClick
    \/ handleSubstitutionClick
    \/ handleTransferClick

\* The inputs without which a path cannot be walked to its execute button:
\* the program of a transfer and the contact of a substitution.
PathInput(pool) ==
    \/ \E row \in availablePrograms \cup {NoProgram} : handleProgramSelect(row)
    \/ \E text \in SearchTexts : handleContactSearch(pool, text)
    \/ \E contact \in Contacts : handleContactSelect(contact)
    \/ handleClearContactSelection

\* The inputs of Cancellation steps 1 and 2.
CancellationInput ==
    \/ \E checked \in BOOLEAN : handleCancelFeeToggle(checked)
    \/ \E text \in AmountTexts : handleCancelFeeAmountChange(text)
    \/ \E value \in cancelSettlementOptions : handleCancelSettlementChange(value)

\* The other inputs that navigation reads: fee, discount, cancellation fee
\* and cancellation settlement.
StepInput ==
    \/ \E text \in AmountTexts : handleFeeChange(text)
    \/ \E checked \in BOOLEAN : handleDiscountToggle(checked)
    \/ \E text \in DiscountTexts : handleDiscountAmountChange(text)
    \/ \E text \in DiscountCodes : handleDiscountCodeChange(text)
    \/ CancellationInput

\* The footer buttons and the three execute buttons.
Navigation(pool) ==
    \/ handleNext(pool)
    \/ handleBack
    \/ handleCancel
    \/ handleExecuteTransfer(pool)
    \/ handleExecuteCancellation(pool)
    \/ handleExecuteSubstitution(pool)

\* The response of the Apex call c: it resolves, or rejects with a fault.
Response(c, inits, details) ==
    \/ \E d \in inits : loadInitDataResolved(c, d)
    \/ \E e \in Faults : loadInitDataRejected(c, e)
    \/ \E found \in SUBSET Contacts : handleContactSearchResolved(c, found)
    \/ \E e \in Faults : handleContactSearchRejected(c, e)
    \/ \E d \in details : loadProgramDetailsResolved(c, d)
    \/ \E e \in Faults : loadProgramDetailsRejected(c, e)
    \/ \E result \in ExecuteResults : handleExecuteTransferResolved(c, result)
    \/ \E result \in ExecuteResults :
          handleExecuteCancellationResolved(c, result)
    \/ \E result \in ExecuteResults :
          handleExecuteSubstitutionResolved(c, result)
    \/ \E e \in Faults : handleExecuteRejected(c, e)

\* The component is inserted, and the responses of the Apex calls.
Responses(inits, details) ==
    \/ connectedCallback
    \/ \E c \in Calls : Response(c, inits, details)

\* The wizard as a navigation machine: every input that navigation reads,
\* every button, every response, one Apex call at a time; getProgramDetails
\* finds the fee and the transfer fee item.
Next ==
    \/ ChangeTypeInput
    \/ PathInput(MaxInFlight)
    \/ StepInput
    \/ Navigation(MaxInFlight)
    \/ Responses(InitDatas(recordId), {FullDetails})

Spec == Init /\ [][Next]_vars

\* The wizard with overlapping Apex calls: the operator walks the paths
\* without touching the optional inputs, and a call may be dispatched while
\* another one is still awaiting its response.
RaceNext ==
    \/ ChangeTypeInput
    \/ PathInput(MaxRaceInFlight)
    \/ Navigation(MaxRaceInFlight)
    \/ Responses(InitDatas(recordId), {FullDetails})

RaceSpec == Init /\ [][RaceNext]_vars

\* The wizard with its apply toggles: the operator walks the paths, switches
\* the transfer fee, the discount and the cancellation fee on and off and
\* types the two fees; the discount amount and code stay as the discount
\* toggle leaves them.
DetailNext ==
    \/ ChangeTypeInput
    \/ PathInput(MaxInFlight)
    \/ TransferDetailInput
    \/ \E checked \in BOOLEAN : handleDiscountToggle(checked)
    \/ CancellationInput
    \/ Navigation(MaxInFlight)
    \/ Responses(InitDatas(recordId), {FullDetails})

DetailSpec == Init /\ [][DetailNext]_vars

\* The wizard whose Apex calls all return: the operator walks the paths, and
\* a call that awaits its response eventually resolves or rejects.
BusyNext ==
    \/ ChangeTypeInput
    \/ PathInput(MaxInFlight)
    \/ Navigation(MaxInFlight)
    \/ Responses(InitDatas(recordId), {FullDetails})

BusySpec ==
    /\ Init
    /\ [][BusyNext]_vars
    /\ WF_vars(connectedCallback)
    /\ \A c \in Calls : WF_vars(Response(c, InitDatas(recordId), {FullDetails}))

\* The wizard opened on any registration: every payment status with and
\* without a parent opportunity, and record ids that are missing or truncated.
\* The operator walks the paths and chooses the cancellation settlement.
RecordInit ==
    /\ recordId \in AllIds
    /\ FieldInitialisers

RecordNext ==
    \/ ChangeTypeInput
    \/ PathInput(MaxInFlight)
    \/ \E value \in cancelSettlementOptions : handleCancelSettlementChange(value)
    \/ Navigation(MaxInFlight)
    \/ Responses(RecordDatas(recordId), {FullDetails})

RecordSpec == RecordInit /\ [][RecordNext]_vars

\* The response of the Apex call c when it may reject with any fault.
FaultResponse(c) ==
    \/ \E d \in InitDatas(recordId) : loadInitDataResolved(c, d)
    \/ \E e \in AllFaults : loadInitDataRejected(c, e)
    \/ \E found \in SUBSET Contacts : handleContactSearchResolved(c, found)
    \/ \E e \in AllFaults : handleContactSearchRejected(c, e)
    \/ loadProgramDetailsResolved(c, FullDetails)
    \/ \E e \in AllFaults : loadProgramDetailsRejected(c, e)
    \/ \E result \in ExecuteResults : handleExecuteTransferResolved(c, result)
    \/ \E result \in ExecuteResults :
          handleExecuteCancellationResolved(c, result)
    \/ \E result \in ExecuteResults :
          handleExecuteSubstitutionResolved(c, result)
    \/ \E e \in AllFaults : handleExecuteRejected(c, e)

\* The wizard whose Apex calls reject with every shape of fault: the operator
\* walks the paths.
FaultNext ==
    \/ ChangeTypeInput
    \/ PathInput(MaxInFlight)
    \/ Navigation(MaxInFlight)
    \/ connectedCallback
    \/ \E c \in Calls : FaultResponse(c)

FaultSpec == Init /\ [][FaultNext]_vars

\* The originalOpp.Amount and originalProgramFeeTotal of the registrations
\* whose amounts are followed: one without amounts, one with both.
OriginalAmounts == {<<0, 0>>, <<1000, 800>>}

\* A catalog with a program that has no expected fee.
FreePrograms == Programs \cup {[Id |-> "a0P2", Expected_Program_Fee__c |-> 0]}

\* The responses of getInitData for those registrations.
AmountDatas(id) ==
    {[InitData("Paid", "No", id, FreePrograms) EXCEPT
         !.Amount = p[1], !.originalProgramFeeTotal = p[2]] :
       p \in OriginalAmounts}

\* The wizard with its amounts: registrations with and without amounts, a
\* program detail lookup that finds the fee and the transfer fee item or
\* neither, and an operator who types the fees and switches the fee toggles
\* and leaves the settlements alone.
AmountNext ==
    \/ ChangeTypeInput
    \/ PathInput(MaxInFlight)
    \/ \E text \in AmountTexts : handleFeeChange(text)
    \/ \E checked \in BOOLEAN : handleTransferFeeToggle(checked)
    \/ \E text \in TransferFeeTexts : handleTransferFeeAmountChange(text)
    \/ \E checked \in BOOLEAN : handleCancelFeeToggle(checked)
    \/ \E text \in AmountTexts : handleCancelFeeAmountChange(text)
    \/ Navigation(MaxInFlight)
    \/ Responses(AmountDatas(recordId), ProgramDetailResults)

AmountSpec == Init /\ [][AmountNext]_vars


\* ------------------------------------------------------------------ claims

\* A result object is populated once an execute call has stored its result.
Populated(result) == result # EmptyResult

\* The terminal step of the active path.
TerminalStep == isTransferStep4 \/ isCancellationStep4 \/ isSubstitutionStep3

\* C1: a Next taken while the Step Gate (disableNext) reports 'not allowed'
\* leaves currentStep unchanged, for every change type and every step.
C1_GatedNextStays ==
    [][(handleNext(MaxInFlight) /\ disableNext) => currentStep' = currentStep]_vars

\* C1 witness: Next was pressed on Substitution step 1 with no contact
\* selected; the gate is closed and the wizard is still on step 1.
C1_Witness ==
    /\ isSubstitutionStep1
    /\ disableNext
    /\ toast = Toast("Error", "Please select a substitute contact.", "", "error")

\* C2: currentStep is always a step of the active change type (0..4 for
\* Transfer and Cancellation, 0..3 for Substitution), and it is 0 whenever no
\* change type is selected.
C2_StepValidForChangeType ==
    /\ changeType = "" => currentStep = "0"
    /\ isSubstitutionPath => currentStep \in {"0", "1", "2", "3"}
    /\ (isTransferPath \/ isCancellationPath)
          => currentStep \in {"0", "1", "2", "3", "4"}

\* C3: never more than one of transferResult, cancellationResult and
\* substitutionResult is populated, and a populated result belongs to the
\* path whose execute call returned success.
C3_OneResult ==
    /\ ~(Populated(transferResult) /\ Populated(cancellationResult))
    /\ ~(Populated(transferResult) /\ Populated(substitutionResult))
    /\ ~(Populated(cancellationResult) /\ Populated(substitutionResult))

\* C4: terminal states are one-way: once the wizard is on the terminal step of
\* its path, currentStep changes only by handleCancel.
C4_TerminalOneWay ==
    [][(TerminalStep /\ currentStep' # currentStep) => handleCancel]_vars

\* C5: on the Transfer path currentStep moves only 0->1->2->3 (Next), 3->4
\* (successful execute) and 3->2->1->0 (Back); no transition skips a step.
C5_TransferTransitions ==
    [][(isTransferPath /\ changeType' = changeType /\ currentStep' # currentStep)
          => <<currentStep, currentStep'>> \in
                 {<<"0", "1">>, <<"1", "2">>, <<"2", "3">>, <<"3", "4">>,
                  <<"3", "2">>, <<"2", "1">>, <<"1", "0">>}]_vars

\* C6: on the Cancellation path a Next that leaves step 1 goes to step 2
\* exactly when the payment status is 'Paid' or 'Partial Payment' and to
\* step 3 otherwise, and step 2 is never reached for any other status.
C6_SettlementStepIffPaid ==
    /\ [](isCancellationStep2 => paymentStatus \in {"Paid", "Partial Payment"})
    /\ [][(handleNext(MaxInFlight) /\ isCancellationStep1
            /\ currentStep' # currentStep)
           => currentStep' = IF paymentStatus \in {"Paid", "Partial Payment"}
                             THEN "2" ELSE "3"]_vars

\* C6 witness: with the payment status missing ('N/A'), Next has taken the
\* Cancellation path from step 1 directly to step 3.
C6_Witness ==
    /\ isCancellationStep3
    /\ paymentStatus = "N/A"
    /\ enteredStep3From = "1"

\* C7: on the Cancellation path Back from step 3 returns to step 2 if and
\* only if step 3 was entered from step 2, and to step 1 otherwise.
C7_BackToWhereItCameFrom ==
    [][(handleBack /\ isCancellationStep3)
          => currentStep' = IF enteredStep3From = "2" THEN "2" ELSE "1"]_vars

\* C8: on the Substitution path currentStep moves only 0->1 and 1->2 (Next),
\* 2->3 (successful execute), 2->1 and 1->0 (Back); step 4 is never reached.
C8_SubstitutionTransitions ==
    [][(isSubstitutionPath /\ changeType' = changeType
        /\ currentStep' # currentStep)
          => <<currentStep, currentStep'>> \in
                 {<<"0", "1">>, <<"1", "2">>, <<"2", "3">>,
                  <<"2", "1">>, <<"1", "0">>}]_vars

\* C9: when getProgramDetails fails after Next on Transfer step 1, an error is
\* surfaced and currentStep stays 1.
C9_FailedLookupStays ==
    [][\A c \in Calls, e \in Faults :
          loadProgramDetailsRejected(c, e)
             => toast'.variant = "error" /\ currentStep' = currentStep]_vars

\* What C10 requires of the step 2 fields: the fee is present and not
\* negative and, with a discount applied, the discount amount is positive or
\* the discount code is not blank.
C10_Step2Acceptable ==
    /\ newProgramFeeAmount # Str("")
    /\ ToNumber(newProgramFeeAmount) >= 0
    /\ applyDiscount
          => (ToNumber(discountAmount) > 0 \/ discountCode \notin {"", " "})

\* C10: Next on Transfer step 2 advances to step 3 if and only if the step 2
\* fields are acceptable; otherwise it shows a validation message and
\* currentStep stays 2.
C10_Step2Validation ==
    [][(handleNext(MaxInFlight) /\ isTransferStep2)
          => IF C10_Step2Acceptable
             THEN currentStep' = "3" /\ toast' = NoToast
             ELSE currentStep' = "2" /\ toast'.title = "Validation Error"]_vars

\* C10 witness: Next was pressed on Transfer step 2 with a discount applied,
\* discountAmount 0 and no discount code; the wizard shows the validation
\* message and is still on step 2.
C10_Witness ==
    /\ isTransferStep2
    /\ applyDiscount
    /\ discountAmount = Num(0)
    /\ discountCode = ""
    /\ toast = Toast("Validation Error",
                     "Please enter either a discount amount or a discount code.",
                     "", "error")

\* C11: while an apply flag is off, its amount counts as zero in the derived
\* totals (netCreditAmount, cancellationRefundAmount), in the formatted
\* display values and in the request assembled for the execute call, whatever
\* the amount field holds.
C11_DisabledAmountIsZero ==
    /\ ~applyTransferFee =>
          /\ netCreditAmount = initData.originalProgramFeeTotal
          /\ formattedNetCredit = CurrencyFormat(initData.originalProgramFeeTotal)
          /\ formattedTransferFee = CurrencyFormat(0)
          /\ transferRequest.transferFeeAmount = 0
    /\ ~applyDiscount =>
          /\ formattedDiscountAmount = FormatSigned(0, TRUE)
          /\ transferRequest.discountAmount = 0
    /\ ~applyCancellationFee =>
          /\ cancellationRefundAmount = initData.Amount
          /\ formattedCancellationRefund = CurrencyFormat(initData.Amount)
          /\ formattedCancellationFee = CurrencyFormat(0)
          /\ cancellationRequest.cancellationFeeAmount = 0

\* C12: a stored amount is zero whenever its apply flag is off.
C12_AmountsCoerced ==
    /\ ~applyCancellationFee => ToNumber(cancellationFeeAmount) = 0
    /\ ~applyTransferFee => ToNumber(transferFeeAmount) = 0
    /\ ~applyDiscount => ToNumber(discountAmount) = 0

\* C13: when the operator, back at step 0, selects a different change type,
\* neither the transfer settlement nor the cancellation settlement is still
\* selected.
C13_SettlementClearedOnPathChange ==
    [][(isStep0 /\ changeType # "" /\ changeType' \notin {"", changeType})
          => (settlementType' = "" /\ cancelSettlementType' = "")]_vars

\* C14: the cancellation settlement options offered are Refund, Unapplied
\* Funds and Apply to Remaining Balance when the originating opportunity has
\* a parent opportunity and its payment status is 'Partial Payment', and
\* Refund and Unapplied Funds in every other case.
C14_SettlementOptions ==
    cancelSettlementOptions =
        IF initData.Has_Parent_Opportunity__c = "Yes"
           /\ initData.Payment_Status__c = "Partial Payment"
        THEN {"Refund", "Unapplied Funds", "Apply to Remaining Balance"}
        ELSE {"Refund", "Unapplied Funds"}

C14_Witness ==
    /\ isCancellationStep2
    /\ initData.Has_Parent_Opportunity__c = "Yes"
    /\ initData.Payment_Status__c = "Partial Payment"
    /\ cancelSettlementType = "Apply to Remaining Balance"

\* The fields handleCancel assigns, at their initial values after the step.
C15_PathFieldsReset ==
    /\ currentStep' = "0"
    /\ changeType' = ""
    /\ isProcessing' = FALSE
    /\ selectedProgram' = NoProgram
    /\ programDetails' = NoDetails
    /\ newProgramFeeAmount' = Num(0)
    /\ applyTransferFee' = TRUE
    /\ transferFeeAmount' = Num(0)
    /\ settlementType' = ""
    /\ applyDiscount' = FALSE
    /\ discountAmount' = Num(0)
    /\ discountCode' = ""
    /\ transferResult' = EmptyResult
    /\ applyCancellationFee' = FALSE
    /\ cancellationFeeAmount' = Num(0)
    /\ cancelSettlementType' = ""
    /\ cancellationResult' = EmptyResult
    /\ contactSearchTerm' = ""
    /\ contactSearchResults' = {}
    /\ selectedContact' = NoContact
    /\ applySubstitutionDiscount' = TRUE
    /\ substitutionResult' = EmptyResult
    /\ isSearchingContacts' = FALSE

\* C15 as stated: handleCancel returns every field of the wizard state to its
\* initial value, isLoading (initially true), hasError and errorMessage
\* included, and clears the three result objects.
C15_ResetAll ==
    [][handleCancel =>
          /\ C15_PathFieldsReset
          /\ isLoading' = TRUE
          /\ hasError' = FALSE
          /\ errorMessage' = ""]_vars

\* C15 amended: handleCancel returns changeType, currentStep, isProcessing and
\* every Transfer, Cancellation and Substitution field to its initial value,
\* clearing the three result objects; hasError and errorMessage are at their
\* initial values, and isLoading stays false, as the loaded wizard has it.
C15_ResetButLoading ==
    [][handleCancel =>
          /\ C15_PathFieldsReset
          /\ isLoading' = FALSE
          /\ hasError' = FALSE
          /\ errorMessage' = ""]_vars

C15_Witness ==
    /\ changeType = ""
    /\ currentStep = "0"
    /\ inflight[Call("executeTransfer", "")] > 0
    /\ ~isProcessing
    /\ applyTransferFee
    /\ transferResult = EmptyResult

\* An id that is missing, empty or shorter than 15 characters.
C16_BadId(id) == id = "" \/ IdLength(id) < 15

\* C16: when recordId and the attendee Id of initData are both missing, empty
\* or shorter than 15 characters, each execute handler shows an error and
\* returns without dispatching its call: no call is added, currentStep and
\* the three result objects are unchanged and isProcessing is false.
C16_UnresolvedAborts ==
    [][(/\ \/ handleExecuteTransfer(MaxInFlight)
           \/ handleExecuteCancellation(MaxInFlight)
           \/ handleExecuteSubstitution(MaxInFlight)
        /\ C16_BadId(recordId)
        /\ C16_BadId(initData.attendeeId))
          => /\ toast'.variant = "error"
             /\ inflight' = inflight
             /\ currentStep' = currentStep
             /\ UNCHANGED <<transferResult, cancellationResult,
                            substitutionResult>>
             /\ isProcessing' = FALSE]_vars

C16_Witness ==
    /\ isTransferStep3
    /\ recordId = ""
    /\ initData.attendeeId = ShortId
    /\ InFlightCount = 0
    /\ ~isProcessing
    /\ toast = Toast("Error", "Unable to determine Attendee ID. recordId=",
                     "", "error")

\* C17: when an execute call resolves with success = false, currentStep and
\* the three result objects are unchanged and the toast shows the result's
\* errorMessage.
C17_BusinessFailureStays ==
    [][\A c \in Calls, result \in ExecuteResults :
          (/\ ~result.success
           /\ \/ handleExecuteTransferResolved(c, result)
              \/ handleExecuteCancellationResolved(c, result)
              \/ handleExecuteSubstitutionResolved(c, result))
          => /\ currentStep' = currentStep
             /\ UNCHANGED <<transferResult, cancellationResult,
                            substitutionResult>>
             /\ toast'.variant = "error"
             /\ toast'.detail = result.errorMessage]_vars

C17_Witness ==
    /\ isCancellationStep3
    /\ cancellationResult = EmptyResult
    /\ toast = Toast("Cancellation Failed", "", "declined", "error")

\* C18: when an execute call rejects, currentStep and the three result
\* objects are unchanged, the toast shows the fault's body.message and
\* isProcessing is false.
C18_FaultStays ==
    [][\A c \in Calls, e \in Faults :
          handleExecuteRejected(c, e)
          => /\ currentStep' = currentStep
             /\ UNCHANGED <<transferResult, cancellationResult,
                            substitutionResult>>
             /\ toast' = Toast("Error", "", e.bodyMessage, "error")
             /\ isProcessing' = FALSE]_vars

C18_Witness ==
    /\ isTransferStep3
    /\ transferResult = EmptyResult
    /\ ~isProcessing
    /\ InFlightCount = 0
    /\ toast = Toast("Error", "", "X", "error")

\* C19: when every dispatched call eventually resolves or rejects, a busy
\* flag that is set is eventually cleared: isLoading, isProcessing and
\* isSearchingContacts never stay true for ever.
C19_BusyFlagsClear ==
    /\ isLoading ~> ~isLoading
    /\ isProcessing ~> ~isProcessing
    /\ isSearchingContacts ~> ~isSearchingContacts

C19_Witness ==
    /\ isSubstitutionStep3
    /\ substitutionResult = SuccessResult
    /\ InFlightCount = 0
    /\ ~isLoading
    /\ ~isProcessing
    /\ ~isSearchingContacts

\* C20: at most one call awaits its response for each purpose: the init
\* load, the program detail load, the contact search and the execute call.
C20_OneCallPerPurpose ==
    /\ inflight[Call("getInitData", "")] <= 1
    /\ inflight[Call("getProgramDetails", "")] <= 1
    /\ SumOver({c \in Calls : c.call = "searchContacts"}) <= 1
    /\ SumOver({c \in Calls : c.call \in ExecuteCalls}) <= 1

\* C21: the cancellation refund is the amount of the original opportunity
\* minus the cancellation fee when the fee is applied, and the amount of the
\* original opportunity when it is not.
C21_CancellationRefund ==
    cancellationRefundAmount =
        IF applyCancellationFee
        THEN initData.Amount - ToNumber(cancellationFeeAmount)
        ELSE initData.Amount

C21_Witness ==
    /\ isCancellationStep1
    /\ initData.Amount = 1000
    /\ applyCancellationFee
    /\ cancellationFeeAmount = Str("50")
    /\ cancellationRefundAmount = 950

\* C22: the net credit of a transfer is the original program fee total minus
\* the transfer fee when the fee is applied, and the original program fee
\* total when it is not, whatever the discount fields hold.
C22_NetCredit ==
    netCreditAmount =
        IF applyTransferFee
        THEN initData.originalProgramFeeTotal - ToNumber(transferFeeAmount)
        ELSE initData.originalProgramFeeTotal

C22_Witness ==
    /\ isTransferStep2
    /\ initData.originalProgramFeeTotal = 800
    /\ ~applyTransferFee
    /\ transferFeeAmount = Num(25)
    /\ netCreditAmount = 800

\* C23: a contact search input of fewer than 2 characters empties
\* contactSearchResults and dispatches no call; an input of 2 or more
\* characters dispatches exactly one searchContacts call, for that term.
C23_SearchDispatch ==
    [][\A text \in SearchTexts :
          handleContactSearch(MaxInFlight, text) =>
              IF TextLength(text) < 2
              THEN /\ contactSearchResults' = {}
                   /\ inflight' = inflight
              ELSE \A c \in Calls :
                      inflight'[c] =
                          IF c = Call("searchContacts", text)
                          THEN inflight[c] + 1
                          ELSE inflight[c]]_vars

C23_Witness ==
    /\ isSubstitutionStep1
    /\ contactSearchTerm = "a"
    /\ contactSearchResults = {}
    /\ inflight[Call("searchContacts", "ab")] = 1
    /\ InFlightCount = 1

\* C24: a reset re-initialises the wizard without fetching again: handleCancel
\* leaves initData and availablePrograms unchanged and dispatches no call,
\* and once the component is connected no further getInitData call is
\* dispatched, so a change started after a reset uses the data loaded first.
C24_ResetKeepsInitData ==
    [][/\ handleCancel =>
              /\ initData' = initData
              /\ availablePrograms' = availablePrograms
              /\ inflight' = inflight
       /\ connected =>
              inflight'[Call("getInitData", "")] <= inflight[Call("getInitData", "")]
      ]_vars

C24_Witness ==
    /\ isTransferStep1
    /\ inflight[Call("executeCancellation", "")] > 0
    /\ initData.loaded
    /\ availablePrograms = Programs
    /\ inflight[Call("getInitData", "")] = 0

\* C25: when the program detail lookup resolves and the transfer moves from
\* step 1 to step 2, newProgramFeeAmount is the expected fee of the lookup, or
\* the fee of the selected catalog row when the lookup has none, or 0;
\* transferFeeAmount is the unit price of the transfer fee item when the
\* lookup has one and keeps its value when it has none. This holds for every
\* such transition, the ones after Back included.
C25_DetailsSeedFees ==
    [][\A c \in Calls : \A d \in ProgramDetailResults :
          (/\ loadProgramDetailsResolved(c, d)
           /\ isTransferStep1
           /\ currentStep' = "2") =>
              /\ newProgramFeeAmount' =
                     IF d.expectedProgramFee # 0
                     THEN Num(d.expectedProgramFee)
                     ELSE Num(selectedProgram.Expected_Program_Fee__c)
              /\ transferFeeAmount' =
                     IF d.hasTransferFeePBE
                     THEN Num(d.UnitPrice)
                     ELSE transferFeeAmount]_vars

C25_Witness ==
    /\ isTransferStep2
    /\ programDetails = BareDetails
    /\ newProgramFeeAmount = Num(0)
    /\ selectedProgram.Id = "a0P2"
    /\ transferFeeAmount = Num(25)

\* C26: when getInitData rejects, the load ends with hasError true,
\* errorMessage the extracted error text and isLoading false, and the wizard
\* is not ready; when it resolves, hasError is false, isLoading is false and
\* availablePrograms is the loaded catalog, or empty when there is none.
C26_InitLoadOutcome ==
    [][\A c \in Calls :
          /\ \A e \in AllFaults :
                loadInitDataRejected(c, e) =>
                    /\ hasError'
                    /\ errorMessage' = extractErrorMessage(e)
                    /\ ~isLoading'
                    /\ ~isReady'
          /\ \A d \in InitDatas(recordId) :
                loadInitDataResolved(c, d) =>
                    /\ ~hasError'
                    /\ ~isLoading'
                    /\ isReady'
                    /\ availablePrograms' =
                           IF d.hasPrograms THEN d.availablePrograms ELSE {}]_vars

C26_Witness ==
    /\ connected
    /\ inflight[Call("getInitData", "")] = 0
    /\ hasError
    /\ errorMessage = "M"
    /\ ~isLoading
    /\ ~isReady

\* The text the priority of C27 surfaces for the fault e.
C27_Surfaced(e) ==
    CASE e.isString -> e.str
      [] ~e.isString /\ e.bodyMessage # "" -> e.bodyMessage
      [] ~e.isString /\ e.bodyMessage = "" /\ e.message # "" -> e.message
      [] OTHER -> "JSON"

\* C27: the error text follows a fixed priority: a string fault is surfaced
\* as itself, otherwise a non-empty body.message, otherwise a non-empty
\* message, otherwise the serialised fault; whichever call rejects, the text
\* shown is that one, and body.message 'X' wins over message 'M'.
C27_ErrorTextPriority ==
    [][\A c \in Calls : \A e \in AllFaults :
          /\ loadInitDataRejected(c, e) => errorMessage' = C27_Surfaced(e)
          /\ handleContactSearchRejected(c, e) =>
                 toast'.detail = C27_Surfaced(e)
          /\ handleExecuteRejected(c, e) => toast'.detail = C27_Surfaced(e)
          /\ (e \in Faults /\ handleExecuteRejected(c, e)) =>
                 toast'.detail = "X"]_vars

C27_Witness ==
    /\ isSubstitutionStep1
    /\ ~isSearchingContacts
    /\ toast = Toast("Error", "Failed to search contacts: ", "JSON", "error")

\* C28: a path's result object is populated exactly when the wizard is at
\* that path's terminal step: transferResult at Transfer step 4,
\* cancellationResult at Cancellation step 4, substitutionResult at
\* Substitution step 3.
C28_ResultIffTerminal ==
    /\ Populated(transferResult) <=> isTransferStep4
    /\ Populated(cancellationResult) <=> isCancellationStep4
    /\ Populated(substitutionResult) <=> isSubstitutionStep3

\* C29: a reset is final for the calls already dispatched: when the wizard
\* is in its initial state (step 0, no change type, no result) and a program
\* detail lookup or an execute call dispatched before the reset completes,
\* currentStep, changeType and the three result objects stay as they are.
C29_ResetIsFinal ==
    [][\A c \in Calls :
          (/\ c.call \in ExecuteCalls \cup {"getProgramDetails"}
           /\ inflight'[c] < inflight[c]
           /\ isStep0
           /\ changeType = ""
           /\ ~Populated(transferResult)
           /\ ~Populated(cancellationResult)
           /\ ~Populated(substitutionResult)) =>
              /\ currentStep' = currentStep
              /\ changeType' = changeType
              /\ transferResult' = transferResult
              /\ cancellationResult' = cancellationResult
              /\ substitutionResult' = substitutionResult]_vars

\* C30: in every reachable state contactSearchResults is empty whenever
\* contactSearchTerm has fewer than 2 characters: the response to an earlier
\* search does not list contacts after the term was shortened or cleared.
C30_ShortTermNoResults ==
    TextLength(contactSearchTerm) < 2 => contactSearchResults = {}

\* C31: every cancellation request dispatched from Cancellation step 3
\* carries a settlementType that agrees with the settlement screen: one of
\* the options of cancelSettlementOptions when the payment status is 'Paid'
\* or 'Partial Payment', and null when the settlement screen is not required.
C31_RequestSettlement ==
    [][(/\ isCancellationStep3
        /\ inflight'[Call("executeCancellation", "")]
               > inflight[Call("executeCancellation", "")]) =>
           IF requiresSettlementScreen
           THEN cancellationRequest.settlementType \in cancelSettlementOptions
           ELSE cancellationRequest.settlementType = Null]_vars

====
